---- MODULE Spec2Model ----
(***************************************************************************)
(* Model of the WPM typing test, src/Project 6/main.py.                    *)
(*                                                                         *)
(* Text is a sequence of one-character strings.  Key codes are integers,   *)
(* as returned by stdscr.getch().  Time is the value of time.time() in     *)
(* milliseconds.  WPM and accuracy are exact rationals <<num, den>>.       *)
(*                                                                         *)
(* One action is one blocking read together with everything the loop does  *)
(* with the key up to the next blocking read: the main-loop read of line   *)
(* 158 (Esc, Backspace, Printable, Other) and the pause read of line 182   *)
(* (PauseKey, PauseTimeout).                                               *)
(***************************************************************************)
EXTENDS Integers, Sequences, FiniteSets, TLC

\* ------------------------------------------------------------------ bounds
\* Number of leading word-bank entries the modelled session draws from.
BankSize == 1
\* Largest clock reading (ms) the model explores; the clock stops there.
MaxTime == 2
\* Printable keys accepted in one round beyond the length of the target.
MaxExtra == 1

\* --------------------------------------------------------------- constants
\* generate_target_text(word_list, word_count = 10)
WordCount == 10
\* key == 27  (ESC)
KeyEsc == 27
\* curses.KEY_BACKSPACE (ncurses 0407)
KEY_BACKSPACE == 263
\* stdscr.timeout(1500)
PauseTimeoutMs == 1500
\* stdscr.timeout(-1)
Blocking == -1
\* 32 <= key <= 126
PrintableLo == 32
PrintableHi == 126
\* max(0.001, ...) seconds, in milliseconds
EpsilonMs == 1

\* ------------------------------------------------------------------ helpers
Min(a, b) == IF a <= b THEN a ELSE b
Max(a, b) == IF a >= b THEN a ELSE b

\* exact rationals <<num, den>>, den > 0
RatEq(a, b) == a[1] * b[2] = b[1] * a[2]
RatLe(a, b) == a[1] * b[2] <= b[1] * a[2]
RatZero == <<0, 1>>
RatHundred == <<100, 1>>

\* load_text(): the word bank
Words ==
<<
    <<"t","h","e">>, <<"b","e">>, <<"t","o">>, <<"o","f">>, <<"a","n","d">>,
    <<"a">>, <<"i","n">>, <<"t","h","a","t">>, <<"h","a","v","e">>, <<"I">>,
    <<"i","t">>, <<"f","o","r">>, <<"n","o","t">>, <<"o","n">>, <<"w","i","t","h">>,
    <<"h","e">>, <<"a","s">>, <<"y","o","u">>, <<"d","o">>, <<"a","t">>,
    <<"t","h","i","s">>, <<"b","u","t">>, <<"h","i","s">>, <<"b","y">>, <<"f","r","o","m">>,
    <<"t","h","e","y">>, <<"w","e">>, <<"s","a","y">>, <<"h","e","r">>, <<"s","h","e">>,
    <<"o","r">>, <<"a","n">>, <<"w","i","l","l">>, <<"m","y">>, <<"o","n","e">>,
    <<"a","l","l">>, <<"w","o","u","l","d">>, <<"t","h","e","r","e">>, <<"t","h","e","i","r">>, <<"w","h","a","t">>,
    <<"s","o">>, <<"u","p">>, <<"o","u","t">>, <<"i","f">>, <<"a","b","o","u","t">>,
    <<"w","h","o">>, <<"g","e","t">>, <<"w","h","i","c","h">>, <<"g","o">>, <<"m","e">>,
    <<"w","h","e","n">>, <<"m","a","k","e">>, <<"c","a","n">>, <<"l","i","k","e">>, <<"t","i","m","e">>,
    <<"n","o">>, <<"j","u","s","t">>, <<"h","i","m">>, <<"k","n","o","w">>, <<"t","a","k","e">>,
    <<"p","e","o","p","l","e">>, <<"i","n","t","o">>, <<"y","e","a","r">>, <<"y","o","u","r">>, <<"g","o","o","d">>,
    <<"s","o","m","e">>, <<"c","o","u","l","d">>, <<"t","h","e","m">>, <<"s","e","e">>, <<"o","t","h","e","r">>,
    <<"t","h","a","n">>, <<"t","h","e","n">>, <<"n","o","w">>, <<"l","o","o","k">>, <<"o","n","l","y">>,
    <<"c","o","m","e">>, <<"i","t","s">>, <<"o","v","e","r">>, <<"t","h","i","n","k">>, <<"a","l","s","o">>,
    <<"b","a","c","k">>, <<"a","f","t","e","r">>, <<"u","s","e">>, <<"t","w","o">>, <<"h","o","w">>,
    <<"o","u","r">>, <<"w","o","r","k">>, <<"f","i","r","s","t">>, <<"w","e","l","l">>, <<"w","a","y">>,
    <<"e","v","e","n">>, <<"n","e","w">>, <<"w","a","n","t">>, <<"b","e","c","a","u","s","e">>, <<"a","n","y">>,
    <<"t","h","e","s","e">>, <<"g","i","v","e">>, <<"d","a","y">>, <<"m","o","s","t">>, <<"u","s">>,
    <<"i","s">>, <<"a","r","e">>, <<"w","a","s">>, <<"w","e","r","e">>, <<"h","a","d">>,
    <<"h","a","s">>, <<"i", "t", "'", "s">>, <<"b","e","e","n">>, <<"b","e","i","n","g">>, <<"a","m">>
>>

\* the printable ASCII characters, codes 32..126, each named by itself
\* (code 96, the grave accent, is named U+0060: a string cannot hold it)
Ascii ==
<<
    " ", "!", "\"", "#", "$", "%", "&", "'", "(", ")", "*", "+", ",", "-", ".", "/",
    "0", "1", "2", "3", "4", "5", "6", "7", "8", "9", ":", ";", "<", "=", ">", "?",
    "@", "A", "B", "C", "D", "E", "F", "G", "H", "I", "J", "K", "L", "M", "N", "O",
    "P", "Q", "R", "S", "T", "U", "V", "W", "X", "Y", "Z", "[", "\\", "]", "^", "_",
    "U+0060", "a", "b", "c", "d", "e", "f", "g", "h", "i", "j", "k", "l", "m", "n", "o",
    "p", "q", "r", "s", "t", "u", "v", "w", "x", "y", "z", "{", "|", "}", "~"
>>

\* chr(key) for a printable key
Chr(k) == Ascii[k - 31]
\* ord(c)
Ord(c) == CHOOSE k \in PrintableLo..PrintableHi : Chr(k) = c

\* the bank the modelled session uses: the first BankSize entries
LoadText == SubSeq(Words, 1, BankSize)

\* " ".join(ws)
RECURSIVE Join(_)
Join(ws) ==
    IF Len(ws) = 0 THEN <<>>
    ELSE IF Len(ws) = 1 THEN ws[1]
    ELSE ws[1] \o <<" ">> \o Join(Tail(ws))

\* Sample as it would be if positions were drawn with replacement
SampleRepeating(population, k) ==
    { [i \in 1..k |-> population[idx[i]]] :
        idx \in [1..k -> 1..Len(population)] }

\* random.sample(population, k): every ordered choice of k distinct positions
Sample(population, k) ==
    { [i \in 1..k |-> population[idx[i]]] :
        idx \in { f \in [1..k -> 1..Len(population)] :
                    \A i, j \in 1..k : i # j => f[i] # f[j] } }

\* generate_target_text(word_list, word_count): the possible results
GenerateTargetText(word_list, word_count) ==
    { Join(s) : s \in Sample(word_list, Min(word_count, Len(word_list))) }

\* calculate_wpm(start_time, end_time, typed_chars), times in ms
CalculateWpm(start, end, typed_chars) ==
    LET elapsed == Max(EpsilonMs, end - start)
    IN  IF elapsed > 0 THEN <<60000 * typed_chars, 5 * elapsed>> ELSE RatZero

\* Accuracy as it would be if an empty round counted as flawless
AccuracyEmptyPerfect(correct, total) ==
    IF total > 0 THEN <<100 * correct, total>> ELSE RatHundred

\* (total_correct_chars / total_chars) * 100 if total_chars > 0 else 0
Accuracy(correct, total) ==
    IF total > 0 THEN <<100 * correct, total>> ELSE RatZero

\* ------------------------------------------------------------------- state
VARIABLES
    pc,                   \* "read": blocked in getch at line 158;
                          \* "pause": blocked in getch at line 182;
                          \* "done": run_typing_test has returned and
                          \*   show_results is blocked in getch at line 228;
                          \* "exited": the process has ended;
                          \* "call", "return": before and after the call of
                          \*   a function taken on its own
    target_text,
    current_text,
    wpm,                  \* the value passed to display_text
    start_time,
    total_correct_chars,
    total_chars,
    final_wpm,            \* <<0, 0>> while unbound
    accuracy,             \* <<0, 0>> while unbound
    tmo,                  \* read timeout of the window
    clock,                \* the latest value returned by time.time()
    exc,                  \* what the latest getch raised, "" if it returned
    out,                  \* what lines 253 and 255 have printed
    args,                 \* arguments of a function taken on its own
    ret                   \* its return value

vars == <<pc, target_text, current_text, wpm, start_time, total_correct_chars,
          total_chars, final_wpm, accuracy, tmo, clock, exc, out, args, ret>>

Unbound == <<0, 0>>

\* --------------------------------------------------------------- key inputs
DeleteKeys == {KEY_BACKSPACE, 127, 8}
\* codes that are neither cancel, delete nor printable
OtherKeys == {10, 31}
\* a second printable key: "e", right at some positions of a target and wrong
\* at the others
AltKey == Ord("e")
IsPrintable(k) == PrintableLo <= k /\ k <= PrintableHi
\* the printable keys the model types: the expected character and AltKey
PrintableInputs ==
    {AltKey} \cup
    (IF Len(current_text) < Len(target_text)
        THEN {Ord(target_text[Len(current_text) + 1])} ELSE {})
Keys == {KeyEsc} \cup DeleteKeys \cup OtherKeys \cup PrintableInputs
Times == clock..MaxTime

\* -------------------------------------------------------------------- init
Init ==
    /\ pc = "read"
    /\ args = <<>>
    /\ ret = <<>>
    /\ out = ""
    /\ exc = ""
    /\ target_text \in GenerateTargetText(LoadText, WordCount)
    /\ current_text = <<>>
    /\ wpm = RatZero
    /\ start_time = 0
    /\ clock = 0
    /\ total_correct_chars = 0
    /\ total_chars = 0
    /\ final_wpm = Unbound
    /\ accuracy = Unbound
    /\ tmo = Blocking

\* ----------------------------------------------------------------- actions
\* Continue as it would be if line 178 tested > instead of >=
ContinueStrict(text) ==
    IF Len(text) > Len(target_text)
    THEN /\ pc' = "pause"
         /\ tmo' = PauseTimeoutMs
         /\ UNCHANGED <<wpm, clock>>
    ELSE /\ pc' = "read"
         /\ tmo' = tmo
         /\ IF text # <<>>
            THEN \E t \in Times :
                    /\ clock' = t
                    /\ wpm' = CalculateWpm(start_time, t, Len(text))
            ELSE UNCHANGED <<wpm, clock>>

\* lines 177-181 and 147-154: after a key that left the text given, either
\* enter the post-round pause or go round the loop and redraw.
Continue(text) ==
    IF Len(text) >= Len(target_text)
    THEN /\ pc' = "pause"
         /\ tmo' = PauseTimeoutMs
         /\ UNCHANGED <<wpm, clock>>
    ELSE /\ pc' = "read"
         /\ tmo' = tmo
         /\ IF text # <<>>
            THEN \E t \in Times :
                    /\ clock' = t
                    /\ wpm' = CalculateWpm(start_time, t, Len(text))
            ELSE UNCHANGED <<wpm, clock>>

\* Esc as it would be if the final WPM were taken from the text on screen
EscTypedLength ==
    /\ pc = "read"
    /\ exc' = ""
    /\ UNCHANGED <<args, ret, out>>
    /\ \E t \in Times :
        /\ clock' = t
        /\ final_wpm' = CalculateWpm(start_time, t, Len(current_text))
    /\ accuracy' = Accuracy(total_correct_chars, total_chars)
    /\ pc' = "done"
    /\ UNCHANGED <<target_text, current_text, wpm, start_time,
                   total_correct_chars, total_chars, tmo>>

\* key == 27: break, then lines 197-202; t is the clock read at line 198 (the
\* local end_time), which clock holds afterwards
Esc ==
    /\ pc = "read"
    /\ exc' = ""
    /\ UNCHANGED <<args, ret, out>>
    /\ \E t \in Times :
        /\ clock' = t
        /\ final_wpm' = CalculateWpm(start_time, t, total_chars)
    /\ accuracy' = Accuracy(total_correct_chars, total_chars)
    /\ pc' = "done"
    /\ UNCHANGED <<target_text, current_text, wpm, start_time,
                   total_correct_chars, total_chars, tmo>>

\* Backspace as it would be if a deleted character were also uncounted
BackspaceUncount(k) ==
    /\ pc = "read"
    /\ exc' = ""
    /\ UNCHANGED <<args, ret, out>>
    /\ k \in DeleteKeys
    /\ current_text' = IF current_text # <<>>
                          THEN SubSeq(current_text, 1, Len(current_text) - 1)
                          ELSE current_text
    /\ total_chars' = IF current_text # <<>> THEN total_chars - 1 ELSE total_chars
    /\ Continue(current_text')
    /\ UNCHANGED <<target_text, start_time, total_correct_chars,
                   final_wpm, accuracy>>

\* Backspace as it would be if it deleted without testing for the empty text
\* and counted the deletion against the correct characters
BackspaceUnscore(k) ==
    /\ pc = "read"
    /\ exc' = ""
    /\ UNCHANGED <<args, ret, out>>
    /\ k \in DeleteKeys
    /\ current_text' = IF current_text # <<>>
                          THEN SubSeq(current_text, 1, Len(current_text) - 1)
                          ELSE current_text
    /\ total_correct_chars' =
          IF total_correct_chars > 0 THEN total_correct_chars - 1
                                     ELSE total_correct_chars
    /\ Continue(current_text')
    /\ UNCHANGED <<target_text, start_time, total_chars, final_wpm, accuracy>>

\* Backspace as it would be if deleting a wrong character took its count back
BackspaceForgives(k) ==
    /\ pc = "read"
    /\ exc' = ""
    /\ UNCHANGED <<args, ret, out>>
    /\ k \in DeleteKeys
    /\ current_text' = IF current_text # <<>>
                          THEN SubSeq(current_text, 1, Len(current_text) - 1)
                          ELSE current_text
    /\ total_chars' =
          IF /\ current_text # <<>>
             /\ current_text[Len(current_text)] # target_text[Len(current_text)]
          THEN total_chars - 1
          ELSE total_chars
    /\ Continue(current_text')
    /\ UNCHANGED <<target_text, start_time, total_correct_chars,
                   final_wpm, accuracy>>

\* lines 165-167
Backspace(k) ==
    /\ pc = "read"
    /\ exc' = ""
    /\ UNCHANGED <<args, ret, out>>
    /\ k \in DeleteKeys
    /\ current_text' = IF current_text # <<>>
                          THEN SubSeq(current_text, 1, Len(current_text) - 1)
                          ELSE current_text
    /\ Continue(current_text')
    /\ UNCHANGED <<target_text, start_time, total_correct_chars, total_chars,
                   final_wpm, accuracy>>

\* Printable as it would be if the character were not compared with the target
PrintableNoCompare(k) ==
    /\ pc = "read"
    /\ exc' = ""
    /\ UNCHANGED <<args, ret, out>>
    /\ IsPrintable(k)
    /\ total_chars < Len(target_text) + MaxExtra
    /\ current_text' = Append(current_text, Chr(k))
    /\ total_chars' = total_chars + 1
    /\ total_correct_chars' =
          IF Len(current_text') <= Len(target_text)
          THEN total_correct_chars + 1
          ELSE total_correct_chars
    /\ Continue(current_text')
    /\ UNCHANGED <<target_text, start_time, final_wpm, accuracy>>

\* Printable as it would be if the character were looked up anywhere in the
\* target instead of at the position just filled
PrintableAnywhere(k) ==
    /\ pc = "read"
    /\ exc' = ""
    /\ UNCHANGED <<args, ret, out>>
    /\ IsPrintable(k)
    /\ total_chars < Len(target_text) + MaxExtra
    /\ current_text' = Append(current_text, Chr(k))
    /\ total_chars' = total_chars + 1
    /\ total_correct_chars' =
          IF /\ Len(current_text') <= Len(target_text)
             /\ \E i \in 1..Len(target_text) : Chr(k) = target_text[i]
          THEN total_correct_chars + 1
          ELSE total_correct_chars
    /\ Continue(current_text')
    /\ UNCHANGED <<target_text, start_time, final_wpm, accuracy>>

\* lines 168-175
Printable(k) ==
    /\ pc = "read"
    /\ exc' = ""
    /\ UNCHANGED <<args, ret, out>>
    /\ IsPrintable(k)
    /\ total_chars < Len(target_text) + MaxExtra
    /\ current_text' = Append(current_text, Chr(k))
    /\ total_chars' = total_chars + 1
    /\ total_correct_chars' =
          IF /\ Len(current_text') <= Len(target_text)
             /\ Chr(k) = target_text[Len(current_text')]
          THEN total_correct_chars + 1
          ELSE total_correct_chars
    /\ Continue(current_text')
    /\ UNCHANGED <<target_text, start_time, final_wpm, accuracy>>

\* Other as it would be if a key of no branch were counted as typed
OtherCounted(k) ==
    /\ pc = "read"
    /\ exc' = ""
    /\ UNCHANGED <<args, ret, out>>
    /\ k # KeyEsc /\ k \notin DeleteKeys /\ ~IsPrintable(k)
    /\ total_chars < Len(target_text) + MaxExtra
    /\ current_text' = current_text
    /\ total_chars' = total_chars + 1
    /\ Continue(current_text')
    /\ UNCHANGED <<target_text, start_time, total_correct_chars,
                   final_wpm, accuracy>>

\* any other key: no branch of lines 163-175 is taken
Other(k) ==
    /\ pc = "read"
    /\ exc' = ""
    /\ UNCHANGED <<args, ret, out>>
    /\ k # KeyEsc /\ k \notin DeleteKeys /\ ~IsPrintable(k)
    /\ current_text' = current_text
    /\ Continue(current_text')
    /\ UNCHANGED <<target_text, start_time, total_correct_chars, total_chars,
                   final_wpm, accuracy>>

\* NextRound as it would be without line 194
NextRoundKeepCorrect ==
    /\ tmo' = Blocking
    /\ \E t1 \in Times : \E t2 \in t1..MaxTime :
        /\ final_wpm' = CalculateWpm(start_time, t1, total_chars)
        /\ start_time' = t2
        /\ clock' = t2
    /\ accuracy' = Accuracy(total_correct_chars, total_chars)
    /\ target_text' \in GenerateTargetText(LoadText, WordCount)
    /\ current_text' = <<>>
    /\ total_correct_chars' = total_correct_chars
    /\ total_chars' = 0
    /\ wpm' = wpm
    /\ pc' = "read"

\* NextRound as it would be without line 192
NextRoundKeepText ==
    /\ tmo' = Blocking
    /\ \E t1 \in Times : \E t2 \in t1..MaxTime :
        /\ final_wpm' = CalculateWpm(start_time, t1, total_chars)
        /\ start_time' = t2
        /\ clock' = t2
    /\ accuracy' = Accuracy(total_correct_chars, total_chars)
    /\ target_text' \in GenerateTargetText(LoadText, WordCount)
    /\ current_text' = current_text
    /\ total_correct_chars' = 0
    /\ total_chars' = 0
    /\ wpm' = wpm
    /\ pc' = "read"

\* lines 183-195, then lines 147-154 with the empty text.  t1 is the clock
\* read at line 186 (the local end_time, used at line 187 only), t2 the one
\* read at line 193; line 149 reads no clock for the empty text and leaves wpm.
NextRound ==
    /\ tmo' = Blocking
    /\ \E t1 \in Times : \E t2 \in t1..MaxTime :
        /\ final_wpm' = CalculateWpm(start_time, t1, total_chars)
        /\ start_time' = t2
        /\ clock' = t2
    /\ accuracy' = Accuracy(total_correct_chars, total_chars)
    /\ target_text' \in GenerateTargetText(LoadText, WordCount)
    /\ current_text' = <<>>
    /\ total_correct_chars' = 0
    /\ total_chars' = 0
    /\ wpm' = wpm
    /\ pc' = "read"

\* line 182: getch returns a key, which is discarded
PauseKey(k) ==
    /\ pc = "pause"
    /\ exc' = ""
    /\ UNCHANGED <<args, ret, out>>
    /\ NextRound

\* line 182: getch returns -1 when the 1500 ms timer expires
PauseTimeout ==
    /\ pc = "pause"
    /\ exc' = ""
    /\ UNCHANGED <<args, ret, out>>
    /\ NextRound

Next ==
    \/ Esc
    \/ \E k \in DeleteKeys : Backspace(k)
    \/ \E k \in PrintableInputs : Printable(k)
    \/ \E k \in OtherKeys : Other(k)
    \/ \E k \in Keys : PauseKey(k)
    \/ PauseTimeout

Spec == Init /\ [][Next]_vars

\* the pause timer makes the getch of line 182 return
LiveSpec == Spec /\ WF_vars(PauseTimeout)

\* ---------------------------------------------- failing reads, process exit
\* what a getch can raise: an error of the terminal library, or the
\* KeyboardInterrupt of a SIGINT delivered while the read blocks
Exceptions == {"curses.error", "KeyboardInterrupt"}

\* lines 250-255: what the top level prints for an exception that reaches it
Report(e) ==
    IF e = "KeyboardInterrupt" THEN "Typing test terminated."
                               ELSE "An error occurred: " \o e

\* ReadRaises as it would be if line 160 were break
ReadRaisesBreak(e) ==
    /\ pc = "read"
    /\ exc' = e
    /\ \E t \in Times :
        /\ clock' = t
        /\ final_wpm' = CalculateWpm(start_time, t, total_chars)
    /\ accuracy' = Accuracy(total_correct_chars, total_chars)
    /\ pc' = "done"
    /\ UNCHANGED <<target_text, current_text, wpm, start_time,
                   total_correct_chars, total_chars, tmo, out, args, ret>>

\* lines 157-160 when getch raises: the bare except catches every exception,
\* KeyboardInterrupt included, and continue goes to lines 147-154
ReadRaises(e) ==
    /\ pc = "read"
    /\ exc' = e
    /\ pc' = "read"
    /\ IF current_text # <<>>
       THEN \E t \in Times :
               /\ clock' = t
               /\ wpm' = CalculateWpm(start_time, t, Len(current_text))
       ELSE UNCHANGED <<wpm, clock>>
    /\ UNCHANGED <<target_text, current_text, start_time, total_correct_chars,
                   total_chars, final_wpm, accuracy, tmo, out, args, ret>>

\* what an exception does that no handler of run_typing_test catches: it
\* leaves run_typing_test, main and wrapper and is reported at lines 252-255
Propagate(e) ==
    /\ exc' = e
    /\ out' = Report(e)
    /\ pc' = "exited"
    /\ UNCHANGED <<target_text, current_text, wpm, start_time,
                   total_correct_chars, total_chars, final_wpm, accuracy, tmo,
                   clock, args, ret>>

\* line 182 when getch raises: the read is in no try block
PauseRaises(e) ==
    /\ pc = "pause"
    /\ Propagate(e)

\* line 228 when getch raises
ResultsRaises(e) ==
    /\ pc = "done"
    /\ Propagate(e)

\* line 228 returns a key: show_results, main and wrapper return
ResultsKey(k) ==
    /\ pc = "done"
    /\ pc' = "exited"
    /\ exc' = ""
    /\ UNCHANGED <<target_text, current_text, wpm, start_time,
                   total_correct_chars, total_chars, final_wpm, accuracy, tmo,
                   clock, out, args, ret>>

NextErr ==
    \/ Next
    \/ \E e \in Exceptions : ReadRaises(e)
    \/ \E e \in Exceptions : PauseRaises(e)
    \/ \E e \in Exceptions : ResultsRaises(e)
    \/ \E k \in Keys : ResultsKey(k)

\* the session with failing reads and the end of the process
SpecErr == Init /\ [][NextErr]_vars


\* ------------------------------------------- functions taken on their own
\* the variables of the session, at rest while a function is taken on its own
svars == <<target_text, current_text, wpm, start_time, total_correct_chars,
           total_chars, final_wpm, accuracy, tmo, clock, exc, out>>

NoSession ==
    /\ target_text = <<>>
    /\ current_text = <<>>
    /\ wpm = RatZero
    /\ start_time = 0
    /\ clock = 0
    /\ total_correct_chars = 0
    /\ total_chars = 0
    /\ final_wpm = Unbound
    /\ accuracy = Unbound
    /\ tmo = Blocking
    /\ exc = ""
    /\ out = ""

\* Number of leading word-bank entries the word lists given to
\* generate_target_text are built from, and the largest length of such a list.
GenBank == 3
\* Largest word_count given to generate_target_text.
GenMaxCount == 4

\* word lists: every sequence, repeats included, of at most GenBank of the
\* first GenBank words
GenWordLists ==
    UNION { { [i \in 1..n |-> Words[f[i]]] : f \in [1..n -> 1..GenBank] } :
              n \in 0..GenBank }

GenInit ==
    /\ pc = "call"
    /\ args \in { <<"generate_target_text", wl, wc>> :
                    wl \in GenWordLists, wc \in 0..GenMaxCount }
    /\ ret = <<>>
    /\ NoSession

\* lines 115-116: one of the texts random.sample can lead to
GenCall ==
    /\ pc = "call"
    /\ args[1] = "generate_target_text"
    /\ ret' \in GenerateTargetText(args[2], args[3])
    /\ pc' = "return"
    /\ UNCHANGED <<args, svars>>

GenNext == GenCall

SpecGen == GenInit /\ [][GenNext]_vars

\* ---------------------------------------------------- calculate_wpm, called
\* Clock readings finer than a millisecond: ticks per millisecond, the
\* largest reading in ticks, and the largest typed_chars of a call.
TicksPerMs == 2
WpmMaxTime == 6
WpmMaxChars == 5

\* calculate_wpm (lines 85-101) with no floor at line 96.
CalculateWpmAtNoFloor(res, start, end, typed_chars) ==
    LET elapsed == end - start
    IN  IF elapsed > 0
           THEN <<60000 * res * typed_chars, 5 * elapsed>>
           ELSE RatZero

\* calculate_wpm (lines 85-101) on clock readings of res ticks per
\* millisecond: elapsed_time = max(0.001, end_time - start_time) is
\* max(res, end - start) ticks, minutes = elapsed / (60000 * res), and the
\* result (typed_chars / 5) / minutes, 0 when minutes is not positive
CalculateWpmAt(res, start, end, typed_chars) ==
    LET elapsed == Max(EpsilonMs * res, end - start)
    IN  IF elapsed > 0
           THEN <<60000 * res * typed_chars, 5 * elapsed>>
           ELSE RatZero

\* a call calculate_wpm(start_time, end_time, typed_chars), any arguments
WpmInit ==
    /\ pc = "call"
    /\ args \in { <<"calculate_wpm", s, e, n>> :
                    s \in 0..WpmMaxTime, e \in 0..WpmMaxTime,
                    n \in 0..WpmMaxChars }
    /\ ret = <<>>
    /\ NoSession

\* lines 96-101: the call returns
WpmCall ==
    /\ pc = "call"
    /\ args[1] = "calculate_wpm"
    /\ ret' = CalculateWpmAt(TicksPerMs, args[2], args[3], args[4])
    /\ pc' = "return"
    /\ UNCHANGED <<args, svars>>

WpmNext == WpmCall

SpecWpm == WpmInit /\ [][WpmNext]_vars

\* ------------------------------------------------------------ the screen
\* line 57: instructions
Instructions ==
    <<"T", "y", "p", "e", " ", "t", "h", "e", " ", "t", "e", "x",
      "t", " ", "b", "e", "l", "o", "w", ".", " ", "P", "r", "e",
      "s", "s", " ", "E", "S", "C", " ", "t", "o", " ", "e", "x",
      "i", "t", ".">>

\* line 61: the text before the number
StatsPrefix ==
    <<"W", "P", "M", ":", " ">>

\* line 218
ResultPrefix ==
    <<"Y", "o", "u", "r", " ", "t", "y", "p", "i", "n", "g", " ",
      "s", "p", "e", "e", "d", ":", " ">>

\* line 218
ResultSuffix ==
    <<" ", "W", "P", "M">>

\* line 219
AccuracyPrefix ==
    <<"A", "c", "c", "u", "r", "a", "c", "y", ":", " ">>

\* line 219
AccuracySuffix ==
    <<"%">>

\* line 220
ExitText ==
    <<"P", "r", "e", "s", "s", " ", "a", "n", "y", " ", "k", "e",
      "y", " ", "t", "o", " ", "e", "x", "i", "t", ".", ".", ".">>

\* the decimal digits of a natural number
RECURSIVE Str(_)
Str(n) ==
    IF n < 10 THEN <<Chr(48 + n)>>
    ELSE Str(n \div 10) \o <<Chr(48 + (n % 10))>>

\* round(100 * r), ties to even: the hundredths the format :.2f shows
Hundredths(r) ==
    LET q == (100 * r[1]) \div r[2]
        rem == (100 * r[1]) % r[2]
    IN  IF 2 * rem > r[2] \/ (2 * rem = r[2] /\ q % 2 = 1) THEN q + 1 ELSE q

\* f"{r:.2f}" for a rational r >= 0
Format2(r) ==
    LET c == Hundredths(r)
    IN  Str(c \div 100) \o <<".">> \o Str((c \div 10) % 10) \o Str(c % 10)

\* one call stdscr.addstr(y, x, text[, color]); i is the index of a typed
\* character the call draws (and of the target character line 75 read for
\* it), -1 for the other calls
AddStr(y, x, text, color, i) ==
    [y |-> y, x |-> x, text |-> text, color |-> color, i |-> i]

\* lines 68-80 from index i on: the loop, with its break
RECURSIVE Overlay(_, _, _, _, _, _)
Overlay(i, start_y, start_x, w, target, current) ==
    IF i >= Len(current) THEN <<>>
    ELSE IF i >= Len(target) \/ start_x + i >= w - 1 THEN <<>>
    ELSE (IF i < Len(target)
            THEN <<AddStr(start_y, start_x + i, <<current[i + 1]>>,
                          IF current[i + 1] = target[i + 1]
                             THEN "green" ELSE "red", i)>>
            ELSE <<>>)
         \o Overlay(i + 1, start_y, start_x, w, target, current)

\* line 53: the column of the first character of the target
StartX(w, target) == Max(0, (w \div 2) - (Len(target) \div 2))

\* the indices i (from 0) at which line 75 reads target_text[i] during one
\* display_text on a window of w columns
OverlayReads(w, target, current) ==
    LET reqs == Overlay(0, 0, StartX(w, target), w, target, current)
    IN  { reqs[n].i : n \in 1..Len(reqs) }

\* line 174 as it would be with the index len(current_text)
ScoreReadsOffByOne(typed, target) ==
    IF Len(typed) <= Len(target) THEN {Len(typed)} ELSE {}

\* the indices (from 0) at which line 174 reads target_text, typed being
\* current_text after line 170: the second operand of the and is evaluated
\* only when the first holds
ScoreReads(typed, target) ==
    IF Len(typed) <= Len(target) THEN {Len(typed) - 1} ELSE {}

\* display_text on a window of h rows and w columns: the addstr calls it
\* makes, in order, when each of them returns
DisplayText(h, w, target, current, shown) ==
    LET start_x == StartX(w, target)
        start_y == h \div 2
        stats == StatsPrefix \o Format2(shown)
    IN  <<AddStr(start_y - 3, Max(0, (w \div 2) - (Len(Instructions) \div 2)),
                 Instructions, "none", -1),
          AddStr(start_y - 1, Max(0, (w \div 2) - (Len(stats) \div 2)),
                 stats, "none", -1),
          AddStr(start_y, start_x, target, "none", -1)>>
        \o Overlay(0, start_y, start_x, w, target, current)

\* show_results on a window of h rows and w columns: its addstr calls
ShowResults(h, w, speed, acc) ==
    LET result_text == ResultPrefix \o Format2(speed) \o ResultSuffix
        accuracy_text == AccuracyPrefix \o Format2(acc) \o AccuracySuffix
    IN  <<AddStr((h \div 2) - 2,
                 Max(0, (w \div 2) - (Len(result_text) \div 2)),
                 result_text, "none", -1),
          AddStr(h \div 2,
                 Max(0, (w \div 2) - (Len(accuracy_text) \div 2)),
                 accuracy_text, "none", -1),
          AddStr((h \div 2) + 2,
                 Max(0, (w \div 2) - (Len(ExitText) \div 2)),
                 ExitText, "none", -1)>>

\* Largest number of rows and of columns of the window (getmaxyx, line 50).
MaxRows == 8
MaxCols == 6
Rows == 1..MaxRows
Cols == 1..MaxCols

\* the addstr calls of the screen the session shows in its present state:
\* display_text (lines 154 and 180) while it runs, show_results after it
Screen(h, w) ==
    IF pc \in {"read", "pause"}
       THEN DisplayText(h, w, target_text, current_text, wpm)
    ELSE IF pc = "done" THEN ShowResults(h, w, final_wpm, accuracy)
    ELSE <<>>

\* ------------------------------------------------------------------ claims
\* the value of a rational lies in [0, 100]
InPercentRange(r) == RatLe(RatZero, r) /\ RatLe(r, RatHundred)

\* number of positions of typed that hold the character of target
MatchCount(typed, target) ==
    Cardinality({ i \in 1..Min(Len(typed), Len(target)) : typed[i] = target[i] })

\* C1: every printable key read in the main loop appends exactly its character
\* to the typed text and adds exactly 1 to total_chars; total_correct_chars
\* grows by exactly 1 if, after the append, the text is no longer than the
\* target and the character equals the target at the position just filled,
\* and is otherwise unchanged.
ThmC1 ==
    [][\A k \in PrintableInputs :
        Printable(k) =>
            /\ Len(current_text') = Len(current_text) + 1
            /\ SubSeq(current_text', 1, Len(current_text)) = current_text
            /\ current_text'[Len(current_text')] = Chr(k)
            /\ total_chars' - total_chars = 1
            /\ total_correct_chars' - total_correct_chars =
                 (IF /\ Len(current_text') <= Len(target_text)
                     /\ current_text'[Len(current_text')]
                          = target_text[Len(current_text')]
                  THEN 1 ELSE 0)]_vars

\* C1 witness: a wrong character has been appended and counted, not scored
WitC1 ==
    /\ pc = "read"
    /\ Len(current_text) = 1
    /\ current_text[1] # target_text[1]
    /\ total_chars = 1
    /\ total_correct_chars = 0

\* C2: in every reachable state the typed text has a length >= 0 and
\* 0 <= total_correct_chars <= total_chars, so the accuracy computed from the
\* counters (and the accuracy last computed) lies in [0, 100].
ThmC2 ==
    /\ Len(current_text) >= 0
    /\ 0 <= total_correct_chars
    /\ total_correct_chars <= total_chars
    /\ InPercentRange(Accuracy(total_correct_chars, total_chars))
    /\ accuracy # Unbound => InPercentRange(accuracy)

\* C2 witness: in a later round, after typing and deleting, the counters lie
\* strictly between the bounds
WitC2 ==
    /\ pc = "read"
    /\ final_wpm # Unbound
    /\ 0 < total_correct_chars
    /\ total_correct_chars < total_chars
    /\ Len(current_text) < total_chars

\* a printable key is delivered to the program, in the main loop or in the pause
Delivered(k) == Printable(k) \/ PauseKey(k)

\* C3: whenever an event leaves the typed text at least as long as the target
\* the session is in the post-round pause (read timeout 1500 ms); from the
\* pause the next step always returns to the main loop with a generated
\* target, an empty typed text, both counters 0 and a start time read at that
\* moment, the read timeout blocking again; and the pause always ends, by a
\* key or by the timer alone.
ThmC3 ==
    /\ [](/\ (pc # "done" => ((Len(current_text) >= Len(target_text)) <=> pc = "pause"))
          /\ (pc = "pause" => tmo = PauseTimeoutMs)
          /\ (pc = "read" => tmo = Blocking))
    /\ [][pc = "pause" =>
            /\ pc' = "read"
            /\ target_text' \in GenerateTargetText(LoadText, WordCount)
            /\ current_text' = <<>>
            /\ total_correct_chars' = 0
            /\ total_chars' = 0
            /\ start_time' = clock' /\ clock' >= clock
            /\ tmo' = Blocking]_vars
    /\ (pc = "pause" ~> pc = "read")

\* C3 witness: a second round has begun with everything reset
WitC3 ==
    /\ pc = "read"
    /\ final_wpm # Unbound
    /\ current_text = <<>>
    /\ total_chars = 0
    /\ total_correct_chars = 0
    /\ start_time = MaxTime
    /\ tmo = Blocking

\* C4 (as claimed): every ESC delivered to the program, in the main loop or
\* in the pause, takes the session to its terminated state.
CexC4 ==
    [][(Esc \/ PauseKey(KeyEsc)) => pc' = "done"]_vars

\* C5: the result returned at termination is computed from the round active
\* at termination only: the WPM from that round's total_chars (not from the
\* length of the typed text) and start_time, the accuracy from that round's
\* counters; terminating leaves the round's counters untouched, and a round
\* completion zeroes them, so nothing of a completed round is in the result.
ThmC5 ==
    /\ [](pc = "done" =>
            /\ final_wpm = CalculateWpm(start_time, clock, total_chars)
            /\ accuracy = Accuracy(total_correct_chars, total_chars))
    /\ [][pc' = "done" =>
            UNCHANGED <<start_time, total_chars, total_correct_chars>>]_vars
    /\ [][pc = "pause" => total_chars' = 0 /\ total_correct_chars' = 0]_vars

\* C5 witness: terminated right after a completed round (the WPM on screen is
\* still that of the completed round), the result being all zero
WitC5 ==
    /\ pc = "done"
    /\ total_chars = 0
    /\ ~RatEq(wpm, RatZero)
    /\ RatEq(final_wpm, RatZero)
    /\ RatEq(accuracy, RatZero)

\* C6 (as claimed): at every redraw of the main loop the WPM shown is
\* calculate_wpm(start_time, now, len(typed)), so it is 0 when nothing is typed.
CexC6 ==
    pc = "read" =>
        RatEq(wpm, CalculateWpm(start_time, clock, Len(current_text)))

\* C7: a delete key read in the main loop removes exactly the last character
\* of a non-empty typed text and changes nothing of an empty one; the
\* counters, the target and the start time are unchanged and the session
\* stays in the main loop; the counters never decrease within a round.
ThmC7 ==
    /\ [][\A k \in DeleteKeys :
            Backspace(k) =>
                /\ current_text # <<>> =>
                     /\ Len(current_text') = Len(current_text) - 1
                     /\ current_text = current_text' \o
                                         <<current_text[Len(current_text)]>>
                /\ current_text = <<>> => current_text' = <<>>
                /\ UNCHANGED <<total_chars, total_correct_chars, target_text,
                               start_time>>
                /\ pc' = "read"]_vars
    /\ [][pc = "read" =>
            /\ total_chars' >= total_chars
            /\ total_correct_chars' >= total_correct_chars]_vars

\* C7 witness: a character was deleted and is still counted
WitC7 ==
    /\ pc = "read"
    /\ current_text = <<>>
    /\ total_chars = 1
    /\ total_correct_chars = 1

\* C8: in a round in which no character was deleted (total_chars is the
\* length of the typed text: every effective delete widens the gap between
\* the two by one, for the rest of the round), total_correct_chars is the
\* number of positions at which typed and target agree; typing the target
\* exactly completes the round with both counters at the length of the target
\* and accuracy 100.
ThmC8 ==
    /\ [](total_chars = Len(current_text) =>
            /\ total_correct_chars = MatchCount(current_text, target_text)
            /\ current_text = target_text =>
                 /\ pc = "pause"
                 /\ total_correct_chars = Len(target_text)
                 /\ total_chars = Len(target_text)
                 /\ RatEq(Accuracy(total_correct_chars, total_chars), RatHundred))
    /\ [][pc = "read" =>
            (total_chars' - Len(current_text') = total_chars - Len(current_text))
              <=> ~(\E k \in DeleteKeys : Backspace(k) /\ current_text # <<>>)]_vars

\* C8 witness: the target typed exactly, the round complete
WitC8 ==
    /\ pc = "pause"
    /\ current_text = target_text
    /\ total_chars = Len(target_text)
    /\ total_correct_chars = total_chars

\* C9 (as claimed): a session cancelled with an empty typed text has
\* total_chars = 0 and returns accuracy 0 and WPM 0.
CexC9 ==
    (pc = "done" /\ current_text = <<>>) =>
        /\ total_chars = 0
        /\ RatEq(final_wpm, RatZero)
        /\ RatEq(accuracy, RatZero)

\* C9 (amended): a session cancelled in a round in which no character has
\* been typed (total_chars = 0, hence an empty typed text) returns accuracy 0
\* and WPM 0.
ThmC9 ==
    (pc = "done" /\ total_chars = 0) =>
        /\ current_text = <<>>
        /\ total_correct_chars = 0
        /\ RatEq(final_wpm, RatZero)
        /\ RatEq(accuracy, RatZero)

\* C9 witness: cancelled with nothing typed, after time has passed
WitC9 ==
    /\ pc = "done"
    /\ total_chars = 0
    /\ clock > start_time
    /\ accuracy = RatZero

\* C10 (as claimed): a printable character entered when the typed text is at
\* least as long as the target is appended to it and counted in total_chars,
\* without incrementing total_correct_chars.
CexC10 ==
    [][\A k \in PrintableInputs :
        (Len(current_text) >= Len(target_text) /\ Delivered(k)) =>
            /\ current_text' = Append(current_text, Chr(k))
            /\ total_chars' = total_chars + 1
            /\ total_correct_chars' = total_correct_chars]_vars

\* C10 (amended): the typed text is never longer than the target; a printable
\* character entered when the typed text has the length of the target arrives
\* in the pause and is discarded: it is not appended, not counted, and the
\* next round starts with an empty text and both counters 0.
ThmC10 ==
    /\ [](Len(current_text) <= Len(target_text))
    /\ [][\A k \in PrintableInputs :
            (Len(current_text) >= Len(target_text) /\ Delivered(k)) =>
                /\ Len(current_text) = Len(target_text)
                /\ current_text' = <<>>
                /\ total_chars' = 0
                /\ total_correct_chars' = 0]_vars

\* C10 witness: the typed text has the length of the target, with a wrong
\* character in it, and the session is in the pause
WitC10 ==
    /\ pc = "pause"
    /\ Len(current_text) = Len(target_text)
    /\ current_text # target_text

\* C11: a failing key read of the main loop is never surfaced: nothing is
\* printed, the loop is blocked in the same read again, and the target, the
\* typed text, both counters and the start time are as before the read.
ThmC11 ==
    /\ []((exc # "" /\ pc = "read") => out = "")
    /\ [][\A e \in Exceptions :
            ReadRaises(e) =>
                /\ pc' = "read"
                /\ out' = out
                /\ UNCHANGED <<target_text, current_text, total_chars,
                               total_correct_chars, start_time>>]_vars

\* C11 witness: the read has failed in the middle of a round, which goes on
WitC11 ==
    /\ exc = "curses.error"
    /\ pc = "read"
    /\ current_text # <<>>
    /\ total_chars > Len(current_text)
    /\ out = ""

\* C12 (as claimed): after a KeyboardInterrupt, wherever it is raised, the
\* process has ended and has printed "Typing test terminated.".
CexC12 ==
    exc = "KeyboardInterrupt" =>
        (pc = "exited" /\ out = "Typing test terminated.")

\* the entries of a sequence are pairwise different
Distinct(seq) == \A i, j \in 1..Len(seq) : i # j => seq[i] # seq[j]

\* the position of the first space of a text, 0 if it has none
FirstSpace(text) ==
    IF \E i \in 1..Len(text) : text[i] = " "
    THEN CHOOSE i \in 1..Len(text) :
            text[i] = " " /\ \A j \in 1..(i - 1) : text[j] # " "
    ELSE 0

\* text.split(" ")
RECURSIVE Split(_)
Split(text) ==
    IF FirstSpace(text) = 0 THEN <<text>>
    ELSE <<SubSeq(text, 1, FirstSpace(text) - 1)>>
           \o Split(SubSeq(text, FirstSpace(text) + 1, Len(text)))

\* the words of a text: none in the empty text
WordsOf(text) == IF text = <<>> THEN <<>> ELSE Split(text)

\* C13: generate_target_text(word_list, word_count) has a result also when
\* word_count exceeds the length of the list; the result is exactly
\* min(word_count, len(word_list)) non-empty words of the list joined by
\* single spaces, pairwise different when the entries of the list are; the
\* word bank holds pairwise different non-empty words without spaces and at
\* least word_count = 10 of them, so a target of the session is 10 pairwise
\* different words and is not empty.
ThmC13 ==
    /\ Distinct(Words)
    /\ WordCount <= Len(Words)
    /\ \A i \in 1..Len(Words) : Words[i] # <<>> /\ FirstSpace(Words[i]) = 0
    /\ (pc = "call" /\ args[1] = "generate_target_text") =>
          GenerateTargetText(args[2], args[3]) # {}
    /\ (pc = "return" /\ args[1] = "generate_target_text") =>
          LET ws == WordsOf(ret)
              wl == args[2]
          IN  /\ Len(ws) = Min(args[3], Len(wl))
              /\ Join(ws) = ret
              /\ \A i \in 1..Len(ws) :
                    ws[i] # <<>> /\ \E j \in 1..Len(wl) : ws[i] = wl[j]
              /\ Distinct(wl) => Distinct(ws)
              /\ Len(ws) > 0 => ret # <<>>

\* C13 witness: more words were asked for than the list of pairwise different
\* words holds, and all of them came back
WitC13 ==
    /\ pc = "return"
    /\ args[1] = "generate_target_text"
    /\ args[3] > Len(args[2])
    /\ Distinct(args[2])
    /\ Len(WordsOf(ret)) = GenBank

\* a call addresses only cells of the window of h rows and w columns
OnScreen(r, h, w) ==
    /\ 0 <= r.y /\ r.y < h
    /\ 0 <= r.x /\ r.x < w
    /\ r.x + Len(r.text) <= w

\* the calls of a sequence that draw the typed character of index i
MarksOf(reqs, i) == { n \in 1..Len(reqs) : reqs[n].i = i }

\* C14 (as claimed): on every redraw every typed character at a position
\* that the target has is drawn once, green if it equals the target
\* character of its position and red otherwise; no character beyond the
\* target is drawn.
CexC14 ==
    pc \in {"read", "pause"} =>
        \A h \in Rows, w \in Cols :
            LET reqs == Screen(h, w)
            IN  /\ \A i \in 0..(Min(Len(current_text), Len(target_text)) - 1) :
                     /\ Cardinality(MarksOf(reqs, i)) = 1
                     /\ \A n \in MarksOf(reqs, i) :
                          (reqs[n].color = "green")
                            <=> (current_text[i + 1] = target_text[i + 1])
                /\ \A n \in 1..Len(reqs) : reqs[n].i < Len(target_text)

\* C15 (as claimed): for every size of the window and every state of the
\* session, every addstr call of display_text and of show_results addresses
\* a row in [0, h) and columns in [0, w).
CexC15 ==
    \A h \in Rows, w \in Cols :
        \A n \in 1..Len(Screen(h, w)) : OnScreen(Screen(h, w)[n], h, w)

\* C16: calculate_wpm floors the elapsed time at 1 ms: every call with
\* end - start <= 0.001 s (end = start, end = start + 0.0005 s and
\* end < start included) returns (n / 5) / (0.001 / 60) = 12000 * n; every
\* call divides by a positive number, and with end >= start and n >= 0 the
\* result is >= 0.  On whole milliseconds the function is the CalculateWpm
\* the session uses.
ThmC16 ==
    (pc = "return" /\ args[1] = "calculate_wpm") =>
        LET start == args[2]
            end == args[3]
            n == args[4]
        IN  /\ ret # Unbound
            /\ ret[2] > 0
            /\ (end - start <= EpsilonMs * TicksPerMs) =>
                   RatEq(ret, <<60 * 1000 * n, 5>>)
            /\ (end >= start) => RatLe(RatZero, ret)
            /\ CalculateWpmAt(1, start, end, n) = CalculateWpm(start, end, n)

\* a call with end = start + 0.0005 s and characters typed has returned
\* the floored value
WitC16 ==
    /\ pc = "return"
    /\ args[1] = "calculate_wpm"
    /\ 2 * (args[3] - args[2]) = EpsilonMs * TicksPerMs
    /\ args[4] > 0
    /\ RatEq(ret, <<12000 * args[4], 1>>)

\* C17: a key read in the main loop that is neither ESC, nor a delete key,
\* nor printable is ignored: the typed text, the target, both counters and
\* the start time are unchanged, no round is completed (no pause, no final
\* figures) and the loop is blocked in the same read again.
ThmC17 ==
    [][\A k \in OtherKeys :
        Other(k) =>
            /\ UNCHANGED <<current_text, target_text, total_chars,
                           total_correct_chars, start_time>>
            /\ UNCHANGED <<final_wpm, accuracy, tmo>>
            /\ pc' = "read"]_vars

\* C17 witness: the main loop is blocked in its read in the middle of a
\* round, with text typed and a mistake counted, and every other key can be
\* read there
WitC17 ==
    /\ pc = "read"
    /\ current_text # <<>>
    /\ total_correct_chars > 0
    /\ total_chars > total_correct_chars
    /\ \A k \in OtherKeys : ENABLED Other(k)

\* C18: no index into the target is out of range: the scoring step of a
\* printable key reads target_text[len(current_text) - 1] only with
\* 1 <= len(current_text) <= len(target_text) (and then it does read it),
\* and every redraw reads target_text[i] only with 0 <= i < len(target_text),
\* whatever the width of the window.
ThmC18 ==
    /\ pc = "read" =>
         \A k \in PrintableInputs :
            LET typed == Append(current_text, Chr(k))
            IN  /\ 1 <= Len(typed) /\ Len(typed) <= Len(target_text)
                /\ ScoreReads(typed, target_text) # {}
                /\ ScoreReads(typed, target_text)
                      \subseteq 0..(Len(target_text) - 1)
    /\ pc \in {"read", "pause"} =>
         \A w \in Cols :
            OverlayReads(w, target_text, current_text)
               \subseteq 0..(Len(target_text) - 1)

\* C18 witness: the last character of the target has been typed and scored,
\* and the redraw before the pause reads every index of the target
WitC18 ==
    /\ pc = "pause"
    /\ current_text = target_text
    /\ total_correct_chars = Len(target_text)
    /\ ScoreReads(current_text, target_text) = {Len(target_text) - 1}
    /\ \E w \in Cols :
         OverlayReads(w, target_text, current_text)
            = 0..(Len(target_text) - 1)

\* the overlay calls of one colour that a redraw on w columns makes
Shown(w, color) ==
    LET reqs == Overlay(0, 0, StartX(w, target_text), w, target_text,
                        current_text)
    IN  Cardinality({ n \in 1..Len(reqs) : reqs[n].color = color })

\* C19: in every state of a round the typed text is no longer than
\* total_chars, the positions of the typed text that hold the character of
\* the target (and the characters a redraw shows green) are at most
\* total_correct_chars, and the other positions (and the characters shown
\* red) are at most total_chars - total_correct_chars; a wrong character
\* typed leaves total_chars > total_correct_chars, which no later key of the
\* round undoes, so that the accuracy computed when the round ends (by
\* completion or by ESC) is not 100.
ThmC19 ==
    /\ [](pc \in {"read", "pause"} =>
            /\ Len(current_text) <= total_chars
            /\ MatchCount(current_text, target_text) <= total_correct_chars
            /\ Len(current_text) - MatchCount(current_text, target_text)
                  <= total_chars - total_correct_chars
            /\ \A w \in Cols :
                 /\ Shown(w, "green") <= total_correct_chars
                 /\ Shown(w, "red") <= total_chars - total_correct_chars)
    /\ [][\A k \in PrintableInputs :
            (Printable(k) /\ Chr(k) # target_text[Len(current_text) + 1]) =>
                total_chars' > total_correct_chars']_vars
    /\ [][(pc = "read" /\ total_chars > total_correct_chars) =>
            /\ pc' \in {"read", "pause"} =>
                  total_chars' > total_correct_chars'
            /\ pc' = "done" => ~RatEq(accuracy', RatHundred)]_vars
    /\ [][(pc = "pause" /\ total_chars > total_correct_chars) =>
            ~RatEq(accuracy', RatHundred)]_vars

\* C19 witness: the round is complete with every character shown as
\* correct, after a mistake that was deleted and retyped
WitC19 ==
    /\ pc = "pause"
    /\ current_text = target_text
    /\ total_correct_chars = Len(target_text)
    /\ total_chars > Len(target_text)

\* C20: whenever the main loop is blocked in its key read the typed text is
\* shorter than the target, and the typed text is never longer than the
\* target, which is never empty; a key that brings the typed text to the
\* length of the target leads to the pause within the same iteration and
\* the pause to a new round with an empty typed text, so that a printable
\* key is only ever appended to a typed text shorter than the target.
ThmC20 ==
    /\ [](/\ pc = "read" => Len(current_text) < Len(target_text)
          /\ pc \in {"read", "pause"} =>
                /\ Len(current_text) <= Len(target_text)
                /\ Len(target_text) > 0)
    /\ [][\A k \in PrintableInputs :
            Printable(k) =>
                /\ Len(current_text) < Len(target_text)
                /\ Len(current_text') <= Len(target_text')
                /\ (Len(current_text') = Len(target_text')) <=> pc' = "pause"]_vars
    /\ [][pc = "pause" =>
            /\ pc' = "read"
            /\ current_text' = <<>>
            /\ Len(target_text') > 0]_vars

\* C20 witness: a second round is being typed, its text one character short
\* of the target, after the first round was completed and replaced
WitC20 ==
    /\ pc = "read"
    /\ final_wpm # Unbound
    /\ Len(current_text) = Len(target_text) - 1
    /\ total_chars >= Len(current_text)
    /\ current_text # <<>>

====
